---------------------------- MODULE Spec2Model ----------------------------
(***************************************************************************)
(* colorednoise.py: the Kasdin & Walter generator of discrete power-law    *)
(* noise (noiseGen) and the four closed-form converters from the discrete  *)
(* variance Qd to PSD / Allan deviation prefactors.                        *)
(*                                                                         *)
(* Numbers.  noiseGen is modelled in exact rational arithmetic (the real-  *)
(* number meaning of its float operations); its discrete Fourier           *)
(* transforms are computed exactly in the cyclotomic field Q(zeta_M).      *)
(* The converters use pi, log and sqrt, and are modelled in a binary       *)
(* floating point arithmetic with a Prec-bit mantissa.                     *)
(***************************************************************************)
EXTENDS Integers, Sequences, FiniteSets, TLC

\* ------------------------------------------------------------------ bounds
\* largest number of points nr a call of noiseGen is given
MaxNr == 4
\* period of the stream of standard normal deviates behind np.random
Period == 5
\* mantissa width, in bits, of the converters' floating point arithmetic
Prec == 12

\* ------------------------------------------------------- exact rationals
\* A rational is <<n, d>> with d > 0 and gcd(n, d) = 1.  A pair with d = 0 is
\* not a number: <<0, 0>> is the float NaN.
Abs(n) == IF n < 0 THEN -n ELSE n

RECURSIVE GCD(_, _)
GCD(m, n) == IF n = 0 THEN m ELSE GCD(n, m % n)

Rat(n, d) ==
    LET g == GCD(Abs(n), Abs(d))
        s == IF d < 0 THEN -1 ELSE 1
    IN  <<(s * n) \div g, (s * d) \div g>>

NaN == <<0, 0>>
Zero == <<0, 1>>
One == <<1, 1>>
IsNaN(x) == x[2] = 0
IsZero(x) == x[2] # 0 /\ x[1] = 0

RNeg(x) == IF IsNaN(x) THEN NaN ELSE <<-x[1], x[2]>>
\* the sum, over the least common denominator
RAdd(x, y) ==
    IF IsNaN(x) \/ IsNaN(y) THEN NaN
    ELSE LET g == GCD(x[2], y[2])
         IN  Rat(x[1] * (y[2] \div g) + y[1] * (x[2] \div g),
                 x[2] * (y[2] \div g))
\* the product, the common factors taken out first
RMul(x, y) ==
    IF IsNaN(x) \/ IsNaN(y) THEN NaN
    ELSE IF x[1] = 0 \/ y[1] = 0 THEN Zero
    ELSE LET g == GCD(Abs(x[1]), y[2])
             h == GCD(Abs(y[1]), x[2])
         IN  <<(x[1] \div g) * (y[1] \div h), (x[2] \div h) * (y[2] \div g)>>
\* the divisors of the program are 2.0, indices + 1.0 and the transform
\* length: never zero
RDiv(x, y) ==
    IF IsNaN(x) \/ IsNaN(y) THEN NaN ELSE Rat(x[1] * y[2], x[2] * y[1])

\* floor of the square root of a natural number
RECURSIVE ISqrtFrom(_, _)
ISqrtFrom(n, r) == IF (r + 1) * (r + 1) > n THEN r ELSE ISqrtFrom(n, r + 1)
ISqrt(n) == ISqrtFrom(n, 0)

\* np.sqrt on a rational: NaN (and a RuntimeWarning, no exception) below
\* zero; exact on a ratio of perfect squares, which is what QdSet holds.
RSqrt(x) ==
    IF IsNaN(x) \/ x[1] < 0 THEN NaN ELSE <<ISqrt(x[1]), ISqrt(x[2])>>

\* ---------------------------------------------------------- numpy arrays
\* An array of length n is a function on 0 .. n-1, indexed as in the code.
size(a) == Cardinality(DOMAIN a)

\* an array is held by its values: the entries are computed once, when the
\* array is made, and not each time one is read
Array(a) == IF a = <<>> THEN a ELSE a

\* np.zeros(n)
zeros(n) == [i \in 0 .. n - 1 |-> Zero]

\* np.arange(n)
arange(n) == [i \in 0 .. n - 1 |-> <<i, 1>>]

\* a[lo:hi] as a value; a slice is clipped to the array
Slice(a, lo, hi) ==
    LET h == IF hi < size(a) THEN hi ELSE size(a)
    IN  [i \in 0 .. h - lo - 1 |-> a[lo + i]]

\* a[lo:hi] = v, assignment in place
SetSlice(a, lo, hi, v) ==
    LET h == IF hi < size(a) THEN hi ELSE size(a)
    IN  [i \in DOMAIN a |-> IF lo <= i /\ i < h THEN v[i - lo] ELSE a[i]]

\* the accumulation left out: the array as it was
accumulateNot(a) == a

\* np.multiply.accumulate(a): the running product
accumulate(a) ==
    LET acc[k \in DOMAIN a] == IF k = 0 THEN a[0] ELSE RMul(acc[k - 1], a[k])
    IN  [k \in DOMAIN a |-> acc[k]]

HasNaN(a) == \E i \in DOMAIN a : IsNaN(a[i])

\* the sum of the entries of an array of rationals
RSum(a) ==
    LET s[k \in 0 .. size(a)] == IF k = 0 THEN Zero ELSE RAdd(s[k - 1], a[k - 1])
    IN  s[size(a)]

\* ------------------------------------- the cyclotomic field Q(zeta_M)
\* zeta = exp(-2 pi i / M).  A complex number of the field is held as the array
\* c of its rational coefficients on 1, zeta, ..., zeta^(M-1): it is the sum of
\* c[j] * zeta^j.  The holding is not unique; ToReal reduces it.

\* x * y: zeta^p * zeta^q = zeta^((p + q) mod M)
CMul(x, y) ==
    LET M == size(x)
    IN  Array([j \in 0 .. M - 1 |->
            RSum([p \in 0 .. M - 1 |-> RMul(x[p], y[(j - p + M) % M])])])

CAdd(x, y) == Array([j \in DOMAIN x |-> RAdd(x[j], y[j])])

\* c * x for a rational c
CScale(c, x) == Array([j \in DOMAIN x |-> RMul(c, x[j])])

\* x * zeta^s
CShift(x, s) ==
    LET M == size(x)
    IN  Array([j \in 0 .. M - 1 |-> x[(((j - s) % M) + M) % M]])

\* twice the real part of x: x plus its conjugate (zeta^j -> zeta^(-j))
CTwiceRe(x) ==
    LET M == size(x)
    IN  Array([j \in 0 .. M - 1 |-> RAdd(x[j], x[(M - j) % M])])

\* Polynomials with integer coefficients: p[k] is the coefficient of x^k.
PolyMul(p, q) ==
    [k \in 0 .. size(p) + size(q) - 2 |->
        LET t[i \in 0 .. size(p)] ==
                IF i = 0 THEN 0
                ELSE t[i - 1] + (IF k - (i - 1) \in DOMAIN q
                                 THEN p[i - 1] * q[k - (i - 1)] ELSE 0)
        IN  t[size(p)]]

\* the quotient of a by the monic polynomial d
RECURSIVE PolyQuot(_, _)
PolyQuot(a, d) ==
    LET da == size(a) - 1
        dd == size(d) - 1
    IN  IF da < dd THEN [k \in 0 .. -1 |-> 0]
        ELSE LET lead == a[da]
                 rest == [k \in 0 .. da - 1 |->
                             IF k >= da - dd THEN a[k] - lead * d[k - (da - dd)]
                             ELSE a[k]]
                 q    == PolyQuot(rest, d)
             IN  [k \in 0 .. da - dd |-> IF k = da - dd THEN lead ELSE q[k]]

\* the n-th cyclotomic polynomial: x^n - 1 divided by the cyclotomic
\* polynomials of the proper divisors of n
RECURSIVE Cyclotomic(_)
RECURSIVE CycloProduct(_, _)
CycloProduct(n, d) ==
    IF d = 0 THEN [k \in 0 .. 0 |-> 1]
    ELSE IF n % d = 0 THEN PolyMul(CycloProduct(n, d - 1), Cyclotomic(d))
    ELSE CycloProduct(n, d - 1)
Cyclotomic(n) ==
    PolyQuot([k \in 0 .. n |-> IF k = 0 THEN -1 ELSE IF k = n THEN 1 ELSE 0],
             CycloProduct(n, n - 1))

CycloTable == [n \in 1 .. 2 * (MaxNr + 1) |-> Cyclotomic(n)]

\* the remainder of x (rational coefficients) by the monic polynomial d
RECURSIVE CRem(_, _)
CRem(x, d) ==
    LET dx == size(x) - 1
        dd == size(d) - 1
    IN  IF dx < dd THEN x
        ELSE CRem(Array([k \in 0 .. dx - 1 |->
                      IF k >= dx - dd
                      THEN RAdd(x[k], RNeg(RMul(x[dx], <<d[k - (dx - dd)], 1>>)))
                      ELSE x[k]]), d)

\* a number of the field that is no rational
NotRational == <<1, 0>>

\* The value of x as a real number.  1, zeta, ..., zeta^(deg-1) is a basis of
\* the field over the rationals (deg the degree of the cyclotomic polynomial),
\* so x is rational exactly when its remainder is a constant.
ToReal(x) ==
    IF HasNaN(x) THEN NaN
    ELSE LET r == CRem(x, CycloTable[size(x)])
         IN  IF \A k \in DOMAIN r : k = 0 \/ IsZero(r[k]) THEN r[0]
             ELSE NotRational

\* ------------------------------------------------------------- np.fft
\* np.fft.rfft(a): the bins 0 .. M/2 of the discrete Fourier transform of the
\* real array a of length M, bin k being the sum of a[n] * zeta^(k n).  A NaN
\* in a makes every bin NaN.
rfft(a) ==
    LET M == size(a)
    IN  Array([k \in 0 .. M \div 2 |->
            IF HasNaN(a) THEN [j \in 0 .. M - 1 |-> NaN]
            ELSE Array([j \in 0 .. M - 1 |->
                     RSum([n \in 0 .. M - 1 |->
                              IF (k * n) % M = j THEN a[n] ELSE Zero])])])

\* the elementwise product of two spectra
SpectrumMul(X, Y) == Array([k \in DOMAIN X |-> CMul(X[k], Y[k])])

\* np.fft.irfft(Y): from m bins, the real array of length n = 2 (m - 1) whose
\* transform has Y as its first half and the conjugates as its second; the
\* imaginary parts of bin 0 and of bin m-1 are dropped.  The code transforms
\* arrays of 2*nr points, so n is the length the bins were computed for.
\*   out[t] = (Re Y[0] + (-1)^t Re Y[m-1] + 2 sum_{0<k<m-1} Re(Y[k] zeta^(-k t))) / n
irfft(Y) ==
    LET m == size(Y)
        n == 2 * (m - 1)
        Term(k, t) ==
            IF k = 0 THEN CScale(<<1, 2>>, CTwiceRe(Y[0]))
            ELSE IF k = m - 1
                 THEN CScale(<<IF t % 2 = 0 THEN 1 ELSE -1, 2>>, CTwiceRe(Y[k]))
                 ELSE CTwiceRe(CShift(Y[k], -(k * t)))
        Total(t) ==
            LET s[k \in 0 .. m] ==
                    IF k = 0 THEN [j \in DOMAIN Y[0] |-> Zero]
                    ELSE CAdd(s[k - 1], Term(k - 1, t))
            IN  s[m]
    IN  [t \in 0 .. n - 1 |-> ToReal(CScale(<<1, n>>, Total(t)))]

\* floor of the square root of a natural number below 2^31, by bisection
RECURSIVE ISqrtIn(_, _, _)
ISqrtIn(n, lo, hi) ==
    IF hi - lo <= 1 THEN lo
    ELSE LET mid == (lo + hi) \div 2
         IN  IF mid * mid <= n THEN ISqrtIn(n, mid, hi) ELSE ISqrtIn(n, lo, mid)
ISqrtBig(n) == ISqrtIn(n, 0, 46341)

\* ------------------------------------------------ floating point numbers
\* A float is <<m, e>>, the number m * 2^e, with m = 0 (and e = 0) or
\* 2^(Prec-1) <= |m| < 2^Prec; results are rounded towards zero.  The exponent
\* is unbounded: overflow and underflow are not modelled.  <<0, e>> with e > 0
\* is no number: a NaN, a complex result, or the exception an operation raised,
\* which every later operation of the expression passes on.
FNaN == <<0, 1>>
FComplex == <<0, 2>>
ZeroDivisionError == <<0, 3>>
UnboundLocalError == <<0, 4>>

IsNum(f) == f[1] # 0 \/ f[2] = 0
IsRaise(f) == f = ZeroDivisionError \/ f = UnboundLocalError
FZero == <<0, 0>>

RECURSIVE Pow2Rec(_)
Pow2Rec(k) == IF k = 0 THEN 1 ELSE 2 * Pow2Rec(k - 1)
Pow2Table == [k \in 0 .. 30 |-> Pow2Rec(k)]
Pow2(k) == Pow2Table[k]

\* the number of bits of a natural number below 2^31
RECURSIVE BitsFrom(_, _)
BitsFrom(a, k) == IF k = 31 \/ a < Pow2(k) THEN k ELSE BitsFrom(a, k + 1)
Bits(a) == BitsFrom(a, 0)

\* the float nearest the number m * 2^e, |m| < 2^31: the mantissa is cut to
\* Prec bits, rounding half away from zero
Round(m, e) ==
    IF m = 0 THEN FZero
    ELSE LET a  == Abs(m)
             sh == Bits(a) - Prec
             sg == IF m < 0 THEN -1 ELSE 1
         IN  IF sh <= 0 THEN <<sg * a * Pow2(-sh), e + sh>>
             ELSE LET r == (a \div Pow2(sh)) + ((a \div Pow2(sh - 1)) % 2)
                  IN  IF r = Pow2(Prec) THEN <<sg * Pow2(Prec - 1), e + sh + 1>>
                      ELSE <<sg * r, e + sh>>

\* the first of x, y that is no number, exceptions before NaNs
NoNumber(x, y) ==
    IF IsRaise(x) THEN x ELSE IF IsRaise(y) THEN y
    ELSE IF ~IsNum(x) THEN x ELSE y

FromInt(n) == Round(n, 0)

FNeg(x) == IF IsNum(x) THEN <<-x[1], x[2]>> ELSE x

FMul(x, y) ==
    IF ~IsNum(x) \/ ~IsNum(y) THEN NoNumber(x, y)
    ELSE Round(x[1] * y[1], x[2] + y[2])

\* x / y of Python floats: division by zero raises
FDiv(x, y) ==
    IF ~IsNum(x) \/ ~IsNum(y) THEN NoNumber(x, y)
    ELSE IF y[1] = 0 THEN ZeroDivisionError
    ELSE IF x[1] = 0 THEN FZero
    ELSE Round((IF (x[1] < 0) = (y[1] < 0) THEN 1 ELSE -1)
                 * ((Abs(x[1]) * Pow2(Prec)) \div Abs(y[1])),
               x[2] - y[2] - Prec)

FAdd(x, y) ==
    IF ~IsNum(x) \/ ~IsNum(y) THEN NoNumber(x, y)
    ELSE IF x[1] = 0 THEN y
    ELSE IF y[1] = 0 THEN x
    ELSE LET hi == IF x[2] >= y[2] THEN x ELSE y
             lo == IF x[2] >= y[2] THEN y ELSE x
             sh == hi[2] - lo[2]
         IN  IF sh > Prec + 1 THEN hi
             ELSE Round(hi[1] * Pow2(sh) + lo[1], lo[2])

\* the float literal n / d
F(n, d) == FDiv(FromInt(n), FromInt(d))

FSign(x) == IF x[1] > 0 THEN 1 ELSE IF x[1] < 0 THEN -1 ELSE 0

\* np.sqrt: NaN (and a RuntimeWarning) below zero
FSqrt(x) ==
    IF ~IsNum(x) THEN x
    ELSE IF x[1] < 0 THEN FNaN
    ELSE IF x[1] = 0 THEN FZero
    ELSE LET k == IF (x[2] - Prec) % 2 = 0 THEN Prec ELSE Prec + 1
         IN  Round(ISqrtBig(x[1] * Pow2(k)), (x[2] - k) \div 2)

\* np.log: NaN (and a RuntimeWarning) below zero.  Its argument in the code is
\* 2 pi f_h tau or a positive literal: zero only when tau is zero.
\* For x = t * 2^k with 1 <= t < 2: log x = k log 2 + log t, and
\* log t = 2 (y + y^3/3 + y^5/5 + y^7/7), y = (t - 1) / (t + 1).
LogSeries(t) ==
    LET y  == FDiv(FAdd(t, FromInt(-1)), FAdd(t, FromInt(1)))
        y2 == FMul(y, y)
        y3 == FMul(y, y2)
        y5 == FMul(y3, y2)
        y7 == FMul(y5, y2)
    IN  FMul(FromInt(2),
             FAdd(FAdd(y, FDiv(y3, FromInt(3))),
                  FAdd(FDiv(y5, FromInt(5)), FDiv(y7, FromInt(7)))))
Log2 == LogSeries(FromInt(2))
FLog(x) ==
    IF ~IsNum(x) THEN x
    ELSE IF x[1] <= 0 THEN FNaN
    ELSE FAdd(FMul(FromInt(x[2] + Prec - 1), Log2),
              LogSeries(<<x[1], 1 - Prec>>))

\* np.pi
pi == F(355, 113)

RECURSIVE FPowInt(_, _)
FPowInt(x, n) == IF n = 0 THEN FromInt(1) ELSE FMul(x, FPowInt(x, n - 1))

\* the float m * 2^e as <<n, k>>, the fraction n / 2^k in lowest terms
RECURSIVE Dyadic(_, _)
Dyadic(m, e) ==
    IF e >= 0 THEN <<m * Pow2(e), 0>>
    ELSE IF m % 2 = 0 THEN Dyadic(m \div 2, e + 1)
    ELSE <<m, -e>>

\* the 2^k-th root of x > 0
RECURSIVE Root(_, _)
Root(x, k) == IF k = 0 THEN x ELSE Root(FSqrt(x), k - 1)

\* pow(x, y) of Python 3 floats: 0.0 to a negative power raises
\* ZeroDivisionError; a negative number to a power that is no integer gives a
\* complex number; x ** (n / 2^k) is computed as (the 2^k-th root of x) ** n.
FPow(x, y) ==
    IF ~IsNum(x) \/ ~IsNum(y) THEN NoNumber(x, y)
    ELSE IF y[1] = 0 THEN FromInt(1)
    ELSE IF x[1] = 0 THEN (IF y[1] < 0 THEN ZeroDivisionError ELSE FZero)
    ELSE LET d == Dyadic(y[1], y[2])
         IN  IF d[2] > 0 /\ x[1] < 0 THEN FComplex
             ELSE IF d[1] > 0 THEN FPowInt(Root(x, d[2]), d[1])
             ELSE FDiv(FromInt(1), FPowInt(Root(x, d[2]), -d[1]))

\* the float nearest a rational argument of a call
FromRat(q) == F(q[1], q[2])

\* ------------------------------------------------------------- inputs
\* discrete variances: the squares of 0, 1 and 1/2, and a negative one
QdSet == {<<-1, 1>>, Zero, One, <<1, 4>>}
\* slopes: the five supported ones, and 1, -5, -3/2
BSet == {<<1, 1>>, <<0, 1>>, <<-1, 1>>, <<-3, 2>>, <<-2, 1>>, <<-3, 1>>,
         <<-4, 1>>, <<-5, 1>>}
SupportedSlopes == {<<0, 1>>, <<-1, 1>>, <<-2, 1>>, <<-3, 1>>, <<-4, 1>>}
\* sample intervals, the non-positive ones included
Tau0Set == {<<-1, 1>>, Zero, One, <<2, 1>>}
\* averaging times
TauSet == {<<1, 16>>, <<1, 8>>, One, <<2, 1>>, <<4, 1>>}
NrSet == 1 .. MaxNr
RngStates == 0 .. Period - 1

\* what a call ends in: a returned value, or a raised exception
Return(v) == [kind |-> "return", val |-> v, exc |-> ""]
Raise(e) == [kind |-> "raise", val |-> <<>>, exc |-> e]

\* ---------------------------------------------------------- np.random
\* The state of the process-wide generator is its position in a stream of
\* standard normal deviates, which repeats after Period draws.
Z(i) == Rat(((3 * i + 1) % 7) - 3, 2)

\* the scale left out: standard deviates
normalUnit(loc, scale, n, state) ==
    [i \in 0 .. n - 1 |-> RAdd(loc, Z((state + i) % Period))]

\* np.random.normal(loc, scale, n) from the state `state`: loc + scale * z for
\* the next n deviates z
normal(loc, scale, n, state) ==
    [i \in 0 .. n - 1 |-> RAdd(loc, RMul(scale, Z((state + i) % Period)))]

\* ------------------------------------------------------------- noiseGen
\* the length of the two buffers
BufLen(nr) == nr * 2

\* hfb as lines 30-34 leave it
Coefficients(nr, mhb) ==
    LET h0 == zeros(BufLen(nr))
        h1 == [h0 EXCEPT ![0] = One]
        indices == arange(nr - 1)
        h2 == SetSlice(h1, 1, nr,
                       [i \in DOMAIN indices |->
                           RDiv(RAdd(mhb, indices[i]), RAdd(indices[i], One))])
    IN  Array(SetSlice(h2, 0, nr, accumulate(Slice(h2, 0, nr))))

\* the whole buffer filled with draws, none of it left zero
WhiteNoiseUnpadded(nr, sigma, state) ==
    normal(Zero, sigma, BufLen(nr), state)

\* wfb as lines 27-28 leave it
WhiteNoise(nr, sigma, state) ==
    Array(SetSlice(zeros(BufLen(nr)), 0, nr, normal(Zero, sigma, nr, state)))

\* the result of the inverse transform returned whole
FilterUntrimmed(wfb, hfb, nr) ==
    irfft(SpectrumMul(rfft(wfb), rfft(hfb)))

\* line 38
Filter(wfb, hfb, nr) ==
    Slice(irfft(SpectrumMul(rfft(wfb), rfft(hfb))), 0, nr)

\* the sign of the exponent lost
mhbPositive(b) == RDiv(b, <<2, 1>>)

\* line 24
mhb_of(b) == RDiv(RNeg(b), <<2, 1>>)

\* draws that leave the generator where it was
AdvanceNot(state, n) == state

\* the state of np.random after n draws
Advance(state, n) == (state + n) % Period

\* A run of noiseGen(nr, Qd, b) from a state of the generator: the locals at
\* the end, the outcome, and the generator's state after it.  sqrt of a
\* negative Qd is NaN (a RuntimeWarning, no exception).  np.random.normal given
\* a NaN scale draws NaNs; a library that tests the sign bit of the scale
\* raises ValueError instead, before drawing, when the NaN has its sign bit set
\* (`raises`).
noiseGenRun(state, nr, Qd, b, raises) ==
    LET mhb   == mhb_of(b)
        sigma == RSqrt(Qd)
        wfb   == WhiteNoise(nr, sigma, state)
        hfb   == Coefficients(nr, mhb)
        colorednoise == Filter(wfb, hfb, nr)
    IN  IF raises /\ IsNaN(sigma)
        THEN [locals |-> [mhb |-> mhb, Qd |-> sigma,
                          wfb |-> zeros(BufLen(nr)), hfb |-> <<>>],
              ret |-> Raise("ValueError"),
              rng |-> state]
        ELSE [locals |-> [mhb |-> mhb, Qd |-> sigma, wfb |-> wfb, hfb |-> hfb],
              ret |-> Return(colorednoise),
              rng |-> Advance(state, nr)]

noiseGenTable ==
    [state \in RngStates, n \in NrSet, q \in QdSet, s \in BSet |->
        noiseGenRun(state, n, q, s, FALSE)]

\* ----------------------------------------------------------- converters
phase_psd_from_qd(qd, b, tau0) ==
    FMul(FMul(FMul(qd, FromInt(2)), FPow(FMul(FromInt(2), pi), b)),
         FPow(tau0, FAdd(b, FromInt(1))))

frequency_psd_from_qd(qd, b, tau0) ==
    LET a == FAdd(b, FromInt(2))
    IN  FMul(FMul(FMul(qd, FromInt(2)), FPow(FMul(FromInt(2), pi), a)),
             FPow(tau0, FAdd(a, FromInt(-1))))

\* a last branch that binds coeff for every other slope
adev_coeff_default(b, f_h, tau) ==
    IF b = FromInt(0)
    THEN FDiv(FMul(FromInt(3), f_h), FMul(FromInt(4), FPow(pi, FromInt(2))))
    ELSE IF b = FromInt(-1)
    THEN FDiv(FAdd(F(1038, 1000),
                   FMul(FromInt(3),
                        FLog(FMul(FMul(FMul(FromInt(2), pi), f_h), tau)))),
              FMul(FromInt(4), FPow(pi, FromInt(2))))
    ELSE IF b = FromInt(-2) THEN F(1, 2)
    ELSE IF b = FromInt(-3) THEN FMul(FromInt(2), FLog(FromInt(2)))
    ELSE FDiv(FMul(FromInt(2), FPow(pi, FromInt(2))), FromInt(3))

\* lines 98-107: coeff, which no branch binds for an unsupported slope
adev_coeff(b, f_h, tau) ==
    IF b = FromInt(0)
    THEN FDiv(FMul(FromInt(3), f_h), FMul(FromInt(4), FPow(pi, FromInt(2))))
    ELSE IF b = FromInt(-1)
    THEN FDiv(FAdd(F(1038, 1000),
                   FMul(FromInt(3),
                        FLog(FMul(FMul(FMul(FromInt(2), pi), f_h), tau)))),
              FMul(FromInt(4), FPow(pi, FromInt(2))))
    ELSE IF b = FromInt(-2) THEN F(1, 2)
    ELSE IF b = FromInt(-3) THEN FMul(FromInt(2), FLog(FromInt(2)))
    ELSE IF b = FromInt(-4)
    THEN FDiv(FMul(FromInt(2), FPow(pi, FromInt(2))), FromInt(3))
    ELSE UnboundLocalError

\* the flicker-phase branch as adev_from_qd has it, with the averaging time
mdev_coeff_tau(b, f_h, tau) ==
    IF b = FromInt(0)
    THEN FDiv(FromInt(3), FMul(FromInt(8), FPow(pi, FromInt(2))))
    ELSE IF b = FromInt(-1)
    THEN FDiv(FAdd(F(1038, 1000),
                   FMul(FromInt(3),
                        FLog(FMul(FMul(FMul(FromInt(2), pi), f_h), tau)))),
              FMul(FromInt(4), FPow(pi, FromInt(2))))
    ELSE IF b = FromInt(-2) THEN F(1, 4)
    ELSE IF b = FromInt(-3)
    THEN FMul(FromInt(2),
              FLog(FDiv(FMul(FromInt(3), FPow(FromInt(3), F(11, 16))),
                        FromInt(4))))
    ELSE IF b = FromInt(-4)
    THEN FMul(FDiv(FromInt(11), FromInt(20)), FPow(pi, FromInt(2)))
    ELSE UnboundLocalError

\* lines 140-149
mdev_coeff(b, f_h, tau) ==
    IF b = FromInt(0)
    THEN FDiv(FromInt(3), FMul(FromInt(8), FPow(pi, FromInt(2))))
    ELSE IF b = FromInt(-1)
    THEN FDiv(FDiv(FAdd(FMul(FromInt(24), FLog(FromInt(2))),
                        FNeg(FMul(FromInt(9), FLog(FromInt(3))))),
                   FromInt(8)),
              FPow(pi, FromInt(2)))
    ELSE IF b = FromInt(-2) THEN F(1, 4)
    ELSE IF b = FromInt(-3)
    THEN FMul(FromInt(2),
              FLog(FDiv(FMul(FromInt(3), FPow(FromInt(3), F(11, 16))),
                        FromInt(4))))
    ELSE IF b = FromInt(-4)
    THEN FMul(FDiv(FromInt(11), FromInt(20)), FPow(pi, FromInt(2)))
    ELSE UnboundLocalError

\* an exception marker as the outcome of the call
Outcome(f) ==
    IF f = ZeroDivisionError THEN Raise("ZeroDivisionError")
    ELSE IF f = UnboundLocalError THEN Raise("UnboundLocalError")
    ELSE Return(f)

\* A run of a converter: its locals at the end and its outcome.  A local that
\* was never bound holds UnboundLocalError, what reading it raises.
phase_psd_run(qd, b, tau0) ==
    LET g_b == phase_psd_from_qd(qd, b, tau0)
    IN  [locals |-> [g_b |-> IF IsRaise(g_b) THEN UnboundLocalError ELSE g_b],
         ret |-> Outcome(g_b)]

frequency_psd_run(qd, b, tau0) ==
    LET h_a == frequency_psd_from_qd(qd, b, tau0)
    IN  [locals |-> [h_a |-> IF IsRaise(h_a) THEN UnboundLocalError ELSE h_a],
         ret |-> Outcome(h_a)]

\* lines 97 and 139
f_h_of(tau0) == FDiv(F(1, 2), tau0)

\* lines 96-109, and 138-151 with mdev's coeff: the statements in order, the
\* first exception ending the call
deviation_run(g_b, f_h, coeff) ==
    LET dev == FSqrt(FMul(FMul(coeff, g_b),
                          FPow(FMul(FromInt(2), pi), FromInt(2))))
        U   == UnboundLocalError
    IN  IF IsRaise(g_b)
        THEN [locals |-> [g_b |-> U, f_h |-> U, coeff |-> U], ret |-> Outcome(g_b)]
        ELSE IF IsRaise(f_h)
        THEN [locals |-> [g_b |-> g_b, f_h |-> U, coeff |-> U], ret |-> Outcome(f_h)]
        ELSE [locals |-> [g_b |-> g_b, f_h |-> f_h, coeff |-> coeff],
              ret |-> Outcome(dev)]

adev_from_qd(qd, b, tau0, tau) ==
    deviation_run(phase_psd_from_qd(qd, b, tau0), f_h_of(tau0),
                  adev_coeff(b, f_h_of(tau0), tau))

mdev_from_qd(qd, b, tau0, tau) ==
    deviation_run(phase_psd_from_qd(qd, b, tau0), f_h_of(tau0),
                  mdev_coeff(b, f_h_of(tau0), tau))

phaseTable ==
    [q \in QdSet, s \in BSet, t0 \in Tau0Set |->
        phase_psd_run(FromRat(q), FromRat(s), FromRat(t0))]
frequencyTable ==
    [q \in QdSet, s \in BSet, t0 \in Tau0Set |->
        frequency_psd_run(FromRat(q), FromRat(s), FromRat(t0))]
adevTable ==
    [q \in QdSet, s \in BSet, t0 \in Tau0Set, t \in TauSet |->
        adev_from_qd(FromRat(q), FromRat(s), FromRat(t0), FromRat(t))]
mdevTable ==
    [q \in QdSet, s \in BSet, t0 \in Tau0Set, t \in TauSet |->
        mdev_from_qd(FromRat(q), FromRat(s), FromRat(t0), FromRat(t))]

\* ---------------------------------------------------------------- state
VARIABLES
    arg,     \* the parameters the caller works with: nr, Qd, b and tau0
    numpy,   \* the library: whether np.random.normal raises on a NaN scale
    rng,     \* the state of np.random
    call,    \* the most recent call: function, arguments, the state of
             \* np.random at entry and at exit, the locals at the end, the
             \* outcome
    saved    \* an earlier call, kept for comparison with later ones

vars == <<arg, numpy, rng, call, saved>>

NoCall == [op |-> "none", args |-> <<>>, rng0 |-> 0, rng1 |-> 0,
           locals |-> <<>>, ret |-> Return(<<>>)]

\* the module as imported: no call made yet, np.random seeded by the system
Init ==
    /\ arg \in [nr : NrSet, Qd : QdSet, b : BSet, tau0 : Tau0Set]
    /\ numpy \in [nanScaleRaises : BOOLEAN]
    /\ rng \in RngStates
    /\ call = NoCall
    /\ saved = NoCall

\* with keep, the call before this one, if of the same function, is saved
Remember(op, keep) ==
    saved' = IF keep /\ call.op = op THEN call ELSE saved

noiseGen(keep) ==
    LET run == IF numpy.nanScaleRaises /\ arg.Qd[1] < 0
               THEN noiseGenRun(rng, arg.nr, arg.Qd, arg.b, TRUE)
               ELSE noiseGenTable[rng, arg.nr, arg.Qd, arg.b]
    IN  /\ call' = [op |-> "noiseGen", args |-> <<arg.nr, arg.Qd, arg.b>>,
                    rng0 |-> rng, rng1 |-> run.rng,
                    locals |-> run.locals, ret |-> run.ret]
        /\ rng' = run.rng
        /\ Remember("noiseGen", keep)
        /\ UNCHANGED <<arg, numpy>>

\* a converter's call: np.random is not touched
Convert(op, args, run, keep) ==
    /\ call' = [op |-> op, args |-> args, rng0 |-> rng, rng1 |-> rng,
                locals |-> run.locals, ret |-> run.ret]
    /\ Remember(op, keep)
    /\ UNCHANGED <<arg, numpy, rng>>

phase_psd(keep) ==
    Convert("phase_psd_from_qd", <<arg.Qd, arg.b, arg.tau0>>,
            phaseTable[arg.Qd, arg.b, arg.tau0], keep)

frequency_psd(keep) ==
    Convert("frequency_psd_from_qd", <<arg.Qd, arg.b, arg.tau0>>,
            frequencyTable[arg.Qd, arg.b, arg.tau0], keep)

adev(tau, keep) ==
    Convert("adev_from_qd", <<arg.Qd, arg.b, arg.tau0, tau>>,
            adevTable[arg.Qd, arg.b, arg.tau0, tau], keep)

mdev(tau, keep) ==
    Convert("mdev_from_qd", <<arg.Qd, arg.b, arg.tau0, tau>>,
            mdevTable[arg.Qd, arg.b, arg.tau0, tau], keep)

\* any sequence of calls
Next ==
    \/ noiseGen(FALSE)
    \/ phase_psd(FALSE)
    \/ frequency_psd(FALSE)
    \/ \E tau \in TauSet : adev(tau, FALSE)
    \/ \E tau \in TauSet : mdev(tau, FALSE)

Spec == Init /\ [][Next]_vars

\* the deviations of one (Qd, b, tau0) at several averaging times
InitTau == Init /\ arg.nr = 1 /\ rng = 0
NextTau ==
    \/ \E tau \in TauSet, keep \in BOOLEAN : adev(tau, keep)
    \/ \E tau \in TauSet, keep \in BOOLEAN : mdev(tau, keep)
SpecTau == InitTau /\ [][NextTau]_vars

\* calls of noiseGen on one generator, with converter calls between them
InitRng == Init /\ arg.tau0 = One
NextRng ==
    \/ \E keep \in BOOLEAN : noiseGen(keep)
    \/ phase_psd(FALSE)
    \/ frequency_psd(FALSE)
    \/ adev(One, FALSE)
    \/ mdev(One, FALSE)
SpecRng == InitRng /\ [][NextRng]_vars

\* ------------------------------------------------------------ properties
Returned(c) == c.ret.kind = "return"
Raised(c)   == c.ret.kind = "raise"
IsNoiseGen(c) == c.op = "noiseGen"
Deviations == {"adev_from_qd", "mdev_from_qd"}
Converters == {"phase_psd_from_qd", "frequency_psd_from_qd"} \cup Deviations

Positive(q) == q[2] > 0 /\ q[1] > 0
Negative(q) == q[2] > 0 /\ q[1] < 0
RLeq(x, y) == x[1] * y[2] <= y[1] * x[2]
IsPowerOfTwo(n) == \E k \in 0 .. 30 : n = Pow2(k)

\* the product over j = 0 .. k-1 of (h + j) / (j + 1)
RECURSIVE KernelProduct(_, _)
KernelProduct(h, k) ==
    IF k = 0 THEN One
    ELSE RMul(KernelProduct(h, k - 1),
              RDiv(RAdd(h, <<k - 1, 1>>), <<k, 1>>))

\* the causal linear convolution at n: the sum over k = 0 .. n of h[k] * w[n-k]
LinearConvolution(h, w, n) == RSum([k \in 0 .. n |-> RMul(h[k], w[n - k])])

\* the sequence a noiseGen call returned is the first n samples of the linear
\* convolution of its draws with its kernel
IsLinearConvolution(c) ==
    LET n == c.args[1]
    IN  /\ DOMAIN c.ret.val = 0 .. n - 1
        /\ \A i \in 0 .. n - 1 :
              c.ret.val[i] = LinearConvolution(c.locals.hfb, c.locals.wfb, i)

\* C9: the coefficient buffer noiseGen builds for h = -b/2 has length 2*nr,
\* entry 0 equal to 1, entry k for 1 <= k <= nr-1 equal to the product over
\* j = 0 .. k-1 of (h + j)/(j + 1), and entries nr .. 2*nr-1 equal to 0, for
\* every nr >= 1.
C9_CoefficientBuffer ==
    (IsNoiseGen(call) /\ Returned(call)) =>
        LET n   == call.args[1]
            h   == RDiv(RNeg(call.args[3]), <<2, 1>>)
            hfb == call.locals.hfb
        IN  /\ DOMAIN hfb = 0 .. 2 * n - 1
            /\ hfb[0] = One
            /\ \A k \in 1 .. n - 1 : hfb[k] = KernelProduct(h, k)
            /\ \A k \in n .. 2 * n - 1 : hfb[k] = Zero

\* a call with nr = 3 and b = -1 built the buffer 1, 1/2, 3/8, 0, 0, 0
C9_Witness ==
    /\ IsNoiseGen(call) /\ Returned(call)
    /\ call.args[1] = 3 /\ call.args[3] = <<-1, 1>>
    /\ call.locals.hfb = [k \in 0 .. 5 |->
            IF k = 0 THEN One ELSE IF k = 1 THEN <<1, 2>>
            ELSE IF k = 2 THEN <<3, 8>> ELSE Zero]

\* C10: for b = 0 the kernel is the unit impulse and noiseGen returns its draws
\* unchanged, out[n] = w[n]; for b = -2 every kernel coefficient 0 .. nr-1 is 1
\* and out[n] = w[0] + ... + w[n], the running sum of the draws (Qd >= 0).
C10_IntegerKernels ==
    (IsNoiseGen(call) /\ Returned(call) /\ ~Negative(call.args[2])) =>
        LET n   == call.args[1]
            hfb == call.locals.hfb
            w   == call.locals.wfb
            out == call.ret.val
        IN  /\ call.args[3] = Zero =>
                /\ \A k \in 0 .. n - 1 : hfb[k] = IF k = 0 THEN One ELSE Zero
                /\ DOMAIN out = 0 .. n - 1
                /\ \A i \in 0 .. n - 1 : out[i] = w[i]
            /\ call.args[3] = <<-2, 1>> =>
                /\ \A k \in 0 .. n - 1 : hfb[k] = One
                /\ DOMAIN out = 0 .. n - 1
                /\ \A i \in 0 .. n - 1 : out[i] = RSum(Slice(w, 0, i + 1))

\* a random walk of three nonzero draws whose last sample is not the last draw
C10_Witness ==
    /\ IsNoiseGen(call) /\ Returned(call)
    /\ call.args[1] = 3 /\ Positive(call.args[2]) /\ call.args[3] = <<-2, 1>>
    /\ \A i \in 0 .. 2 : ~IsZero(call.locals.wfb[i])
    /\ call.ret.val[2] # call.locals.wfb[2]
    /\ call.ret.val[2] = RSum(Slice(call.locals.wfb, 0, 3))

\* a term of the circular convolution of length 2*nr at sample n that wraps
\* around the end of the buffers: h[k] * w[(n - k) mod 2*nr] for k > n
WrapTerm(c, i, k) ==
    RMul(c.locals.hfb[k], c.locals.wfb[(i - k) % BufLen(c.args[1])])

\* C8: for nr a power of two, with the nr draws and the nr kernel coefficients
\* both padded with nr zeros to length 2*nr, noiseGen returns exactly nr entries
\* and entry n is the causal linear convolution, the sum over k = 0 .. n of
\* h[k] * w[n-k]; every term of the circular convolution of length 2*nr that
\* wraps around the buffer end is zero (Qd >= 0).
C8_NoWraparound ==
    (/\ IsNoiseGen(call) /\ Returned(call)
     /\ IsPowerOfTwo(call.args[1]) /\ ~Negative(call.args[2])) =>
        LET n == call.args[1]
        IN  /\ DOMAIN call.locals.wfb = 0 .. 2 * n - 1
            /\ DOMAIN call.locals.hfb = 0 .. 2 * n - 1
            /\ \A k \in n .. 2 * n - 1 :
                  call.locals.wfb[k] = Zero /\ call.locals.hfb[k] = Zero
            /\ IsLinearConvolution(call)
            /\ \A i \in 0 .. n - 1 : \A k \in i + 1 .. 2 * n - 1 :
                  WrapTerm(call, i, k) = Zero

\* four nonzero draws filtered with the kernel of b = -1: the last sample
\* mixes all four draws
C8_Witness ==
    /\ IsNoiseGen(call) /\ Returned(call)
    /\ call.args[1] = 4 /\ Positive(call.args[2]) /\ call.args[3] = <<-1, 1>>
    /\ \A i \in 0 .. 3 : ~IsZero(call.locals.wfb[i])
    /\ IsLinearConvolution(call)
    /\ call.ret.val[3] # call.locals.wfb[3]

\* C7 as the specification states it: when nr is not a power of two, noiseGen
\* raises no error and the sequence it returns differs from the first nr
\* samples of the linear convolution of the draws with the kernel (Qd > 0).
C7_Original ==
    (/\ IsNoiseGen(call) /\ ~IsPowerOfTwo(call.args[1])
     /\ Positive(call.args[2])) =>
        (Returned(call) /\ ~IsLinearConvolution(call))

\* C7, amended: when nr is not a power of two, noiseGen raises no error and
\* returns exactly nr values, the first nr samples of the linear convolution
\* of the draws with the kernel, as it does for a power of two (Qd >= 0).
C7_AnyLength ==
    (/\ IsNoiseGen(call) /\ ~IsPowerOfTwo(call.args[1])
     /\ ~Negative(call.args[2])) =>
        (Returned(call) /\ IsLinearConvolution(call))

\* three nonzero draws filtered with the kernel of b = -1
C7_Witness ==
    /\ IsNoiseGen(call) /\ Returned(call)
    /\ call.args[1] = 3 /\ Positive(call.args[2]) /\ call.args[3] = <<-1, 1>>
    /\ \A i \in 0 .. 2 : ~IsZero(call.locals.wfb[i])
    /\ call.ret.val[2] # call.locals.wfb[2]
    /\ call.ret.val[2] =
          LinearConvolution(call.locals.hfb, call.locals.wfb, 2)

\* C1: for every slope b outside {0, -1, -2, -3, -4}, any Qd, tau0 > 0 and tau,
\* a call of adev_from_qd or mdev_from_qd ends in an error and returns no
\* value.
C1_UnsupportedSlope ==
    (/\ call.op \in Deviations
     /\ call.args[2] \notin SupportedSlopes
     /\ Positive(call.args[3])) =>
        /\ Raised(call)
        /\ call.ret.exc = "UnboundLocalError"
        /\ call.locals.coeff = UnboundLocalError

\* adev_from_qd(1, -1.5, 1, 2) raised
C1_Witness ==
    /\ call.op = "adev_from_qd"
    /\ call.args = <<One, <<-3, 2>>, One, <<2, 1>>>>
    /\ Raised(call)
    /\ IsNum(call.locals.g_b) /\ IsNum(call.locals.f_h)

\* C2 as the specification states it: for every Qd < 0, every nr >= 1 and
\* slope b, noiseGen ends in an error and returns no sequence.
C2_NegativeQdRaises ==
    (IsNoiseGen(call) /\ Negative(call.args[2])) => Raised(call)

\* noiseGen(4, -1, 0) returned four NaN
C2_Witness ==
    /\ IsNoiseGen(call)
    /\ call.args = <<4, <<-1, 1>>, Zero>>
    /\ Returned(call)
    /\ IsNaN(call.locals.Qd)
    /\ \A i \in 0 .. 3 : IsNaN(call.ret.val[i])

\* C3 as the specification states it: for every tau0 <= 0 and every supported
\* slope b, each of the four converters ends in an error and returns no value.
C3_NonPositiveTau0Raises ==
    (/\ call.op \in Converters
     /\ call.args[2] \in SupportedSlopes
     /\ ~Positive(call.args[3])) =>
        Raised(call)

\* phase_psd_from_qd(1, 0, -1) returned -2
C3_Witness ==
    /\ call.op = "phase_psd_from_qd"
    /\ call.args = <<One, Zero, <<-1, 1>>>>
    /\ call.ret = Return(FromInt(-2))

\* C5: noiseGen(nr, 0, b) returns exactly nr values, all zero, whatever the
\* state of the generator; for every supported slope b, tau0 > 0 and
\* tau >= tau0 the four converters return 0 for Qd = 0.
C5_ZeroQd ==
    /\ (IsNoiseGen(call) /\ call.args[2] = Zero) =>
          /\ Returned(call)
          /\ call.ret.val = [i \in 0 .. call.args[1] - 1 |-> Zero]
    /\ (/\ call.op \in Converters
        /\ call.args[1] = Zero
        /\ call.args[2] \in SupportedSlopes
        /\ Positive(call.args[3])
        /\ call.op \in Deviations => RLeq(call.args[3], call.args[4])) =>
          call.ret = Return(FZero)

\* noiseGen(4, 0, -1) from a state whose next four deviates are not all zero
C5_Witness ==
    /\ IsNoiseGen(call) /\ Returned(call)
    /\ call.args = <<4, Zero, <<-1, 1>>>>
    /\ \E i \in 0 .. 3 : ~IsZero(Z((call.rng0 + i) % Period))
    /\ call.ret.val = zeros(4)

\* two calls of one deviation function with the same Qd, b and tau0 and
\* different averaging times
TauPair ==
    /\ call.op \in Deviations
    /\ saved.op = call.op
    /\ saved.args[1] = call.args[1]
    /\ saved.args[2] = call.args[2]
    /\ saved.args[3] = call.args[3]
    /\ saved.args[4] # call.args[4]

\* the slope and function of the pair are ones whose branch does not read tau
TauUnused ==
    \/ call.op = "mdev_from_qd" /\ call.args[2] \in SupportedSlopes
    \/ call.op = "adev_from_qd" /\ call.args[2] \in SupportedSlopes \ {<<-1, 1>>}

\* the pair is of adev_from_qd with b = -1, Qd > 0 and tau0 > 0
FlickerPhasePair ==
    /\ TauPair
    /\ call.op = "adev_from_qd"
    /\ call.args[2] = <<-1, 1>>
    /\ Positive(call.args[1])
    /\ Positive(call.args[3])

\* both averaging times are at least tau0, and one is at least twice the other
WellSeparated(tau0, t1, t2) ==
    /\ RLeq(tau0, t1) /\ RLeq(tau0, t2)
    /\ RLeq(RMul(<<2, 1>>, t1), t2) \/ RLeq(RMul(<<2, 1>>, t2), t1)

\* C4 as the specification states it: for fixed Qd and tau0 > 0 and any two
\* positive tau1 # tau2, adev_from_qd gives the same result for b in
\* {0, -2, -3, -4} and mdev_from_qd for b in {0, -1, -2, -3, -4}, whereas for
\* b = -1 and Qd > 0 the adev result differs between tau1 and tau2.
C4_Original ==
    /\ (TauPair /\ TauUnused) => saved.ret = call.ret
    /\ FlickerPhasePair => saved.ret # call.ret

\* C4, amended: the same independence of tau; for b = -1, Qd > 0 and tau0 > 0
\* the adev results at tau1 and tau2 are numbers and differ when both
\* averaging times are at least tau0 and one is at least twice the other.
C4_TauOnlyInFlickerPhase ==
    /\ (TauPair /\ TauUnused) => saved.ret = call.ret
    /\ (/\ FlickerPhasePair
        /\ WellSeparated(call.args[3], saved.args[4], call.args[4])) =>
          /\ Returned(saved) /\ Returned(call)
          /\ IsNum(saved.ret.val) /\ IsNum(call.ret.val)
          /\ saved.ret.val # call.ret.val

\* adev_from_qd(1, -1, 1, 1) compared with adev_from_qd(1, -1, 1, 2)
C4_Witness ==
    /\ FlickerPhasePair
    /\ saved.args = <<One, <<-1, 1>>, One, One>>
    /\ call.args = <<One, <<-1, 1>>, One, <<2, 1>>>>
    /\ IsNum(saved.ret.val) /\ IsNum(call.ret.val)
    /\ saved.ret.val # call.ret.val

\* the deviates a noiseGen call drew
Draws(c) == {c.locals.wfb[i] : i \in 0 .. c.args[1] - 1}

=============================================================================
